---- MODULE Spec2Model ----
(***************************************************************************)
(* A model of the metabolomics identifier-mapping pipeline of              *)
(* Python/metabolomics-parser/metabolomics-parser.py, and of               *)
(* convert_to_string of Python/utilities.py.                               *)
(*                                                                         *)
(* Every function of the pipeline is a sequential batch transformation.    *)
(* Each one is modelled as a small state machine of its own (its loop      *)
(* iterations are the steps) with a specification of its own; the inputs   *)
(* of a function are drawn from bounded sets.                              *)
(*                                                                         *)
(* Text is modelled as a sequence of characters (one-character strings),   *)
(* so that str(), str.replace(), str.strip(), str.split() and the regular  *)
(* expressions act on text as they do in Python.  A few fixed literals of  *)
(* the source are single tokens of such a sequence (the three URI prefixes *)
(* of the regular expressions, "HMDB", "C").                               *)
(***************************************************************************)
EXTENDS Integers, Sequences, FiniteSets, TLC

VARIABLES
    pc,          \* position of the running function
    modelMap,    \* mapMetabolicModel: the dataframe being built / returned
    mmInput,     \* mapMetabolicModel: the <rdf:li> elements met so far
    pubChemQuery,  \* queryPubChem: the names to look up
    lookups,       \* queryPubChem: the lookups made, each with its outcome
    checkpoint,    \* queryPubChem: the names whose records were appended to
                   \*   pubmed_me1_query.csv
    filename,      \* the extension of the metabolomics file
    synmatch,      \* the synmatch flag
    reader,        \* the pandas reader the file was handed to
    names,         \* the column of names a query list is built from
    sent,          \* the query lists built, each with the names it was built from
    data,          \* the value of the variable `data`
    maCheckpoint,  \* the rows appended to metaboanalyst_me1_query.csv
    queryData,     \* matchModelAndData: the identifier table of the measurements
    merged_data,   \* matchModelAndData: the variable merged_data
    chunksDone,    \* matchModelAndData: chunks of the query checkpoint processed
    mapCheckpoint, \* the rows appended to metaboanalyst_recon1_map.csv
    mapInput,            \* mapMetabolitePositionsInModel: the merged map passed in
    mergedModelDataMap,  \* mapMetabolitePositionsInModel: the variable of that name
    metabolites,         \* mapMetabolitePositionsInModel: mdl.metabolites
    biggRxn,             \* mapMetabolitePositionsInModel: the selected species
    PositionModel,       \* the position table (built, or passed in)
    finalInput,          \* constructFinalDataset: the two tables as passed in
    fileData,            \* constructFinalDataset: the rows of the measurements
    df,                  \* constructFinalDataset: the table returned
    seriesInput,         \* convert_to_string: the column df[col] as passed in
    series               \* convert_to_string: the column df[col]

mmVars == <<modelMap, mmInput>>
pcVars == <<pubChemQuery, lookups, checkpoint>>
qVars == <<filename, synmatch, reader, names, sent, data, maCheckpoint>>

mVars == <<queryData, merged_data, chunksDone, mapCheckpoint>>

pVars == <<mapInput, mergedModelDataMap, metabolites, biggRxn, PositionModel>>
fVars == <<finalInput, fileData, df>>
uVars == <<seriesInput, series>>

vars == <<pc, mmVars, pcVars, qVars, mVars, pVars, fVars, uVars>>

IdleP ==
    /\ mapInput = <<>> /\ mergedModelDataMap = <<>> /\ metabolites = <<>>
    /\ biggRxn = [scanned |-> 0, rows |-> <<>>] /\ PositionModel = <<>>

IdleF == finalInput = <<>> /\ fileData = <<>> /\ df = <<>>

IdleU == seriesInput = <<>> /\ series = <<>>

\* An unbound local variable
Unbound == [bound |-> FALSE, rows |-> <<>>]

IdleM ==
    /\ queryData = <<>> /\ merged_data = Unbound
    /\ chunksDone = 0 /\ mapCheckpoint = <<>>

\* The value of a variable a function does not use
None == "None"

IdleQ ==
    /\ filename = None /\ synmatch = None /\ reader = None
    /\ names = <<>> /\ sent = <<>> /\ maCheckpoint = <<>>
    /\ data = [kind |-> None, rows |-> <<>>]

IdlePC == pubChemQuery = <<>> /\ lookups = <<>> /\ checkpoint = <<>>

IdleMM == modelMap = <<>> /\ mmInput = <<>>

----------------------------------------------------------------------------
(* Sequence helpers *)

RECURSIVE Concat(_)
Concat(ss) == IF ss = <<>> THEN <<>> ELSE Head(ss) \o Concat(Tail(ss))

SeqRange(s) == {s[i] : i \in 1..Len(s)}

\* All sequences over S of length lo..hi
SeqsOf(S, lo, hi) == UNION {[1..n -> S] : n \in lo..hi}

----------------------------------------------------------------------------
(* Python text primitives *)

\* s.replace(c, '') for a one-character c  (pandas .str.replace with a
\* one-character pattern treats it as a literal)
Remove(s, c) == SelectSeq(s, LAMBDA x : x # c)

\* repr() of a str: quoted with ' unless the text holds a ' and no ", in which
\* case it is quoted with "; the quote character in use and \ are escaped.
Escape(s, q) ==
    Concat([i \in 1..Len(s) |->
              IF s[i] = q \/ s[i] = "\\" THEN <<"\\", s[i]>> ELSE <<s[i]>>])

PyRepr(s) ==
    IF "'" \in SeqRange(s) /\ "\"" \notin SeqRange(s)
    THEN <<"\"">> \o Escape(s, "\"") \o <<"\"">>
    ELSE <<"'">> \o Escape(s, "'") \o <<"'">>

\* ', '.join(items)
RECURSIVE JoinComma(_)
JoinComma(items) ==
    IF items = <<>> THEN <<>>
    ELSE IF Len(items) = 1 THEN items[1]
    ELSE items[1] \o <<",", " ">> \o JoinComma(Tail(items))

\* str() of a list whose items are already rendered
PyStrList(rendered) == <<"[">> \o JoinComma(rendered) \o <<"]">>

\* str(numpy.nan)
NanText == <<"n", "a", "n">>

----------------------------------------------------------------------------
(* mapMetabolicModel: the regular expressions *)

Digit == {"0", "7"}

\* The literal prefixes of chebi_pattern, hmdb_pattern and kegg_pattern, each
\* one token: "http://identifiers.org/chebi/CHEBI:", ".../hmdb/HMDB",
\* ".../kegg.compound/C".  OtherUri is a URI prefix none of them matches.
ChebiUri == "<http://identifiers.org/chebi/CHEBI:>"
HmdbUri  == "<http://identifiers.org/hmdb/HMDB>"
KeggUri  == "<http://identifiers.org/kegg.compound/C>"
OtherUri == "<http://identifiers.org/inchi/>"

\* text.split('\n')
RECURSIVE SplitLines(_)
SplitLines(s) ==
    IF \A i \in 1..Len(s) : s[i] # "\n" THEN <<s>>
    ELSE LET k == CHOOSE i \in 1..Len(s) :
                    s[i] = "\n" /\ \A j \in 1..(i-1) : s[j] # "\n"
         IN  <<SubSeq(s, 1, k-1)>> \o SplitLines(SubSeq(s, k+1, Len(s)))

\* the places of `line` where the prefix is followed by a digit
TokPlaces(tok, line) ==
    {i \in 1..(Len(line)-1) : line[i] = tok /\ line[i+1] \in Digit}

\* (\d+) from place i: the longest run of digits
RECURSIVE DigitRun(_, _)
DigitRun(line, i) ==
    IF i <= Len(line) /\ line[i] \in Digit
    THEN <<line[i]>> \o DigitRun(line, i+1) ELSE <<>>

\* re.match(r'.*<prefix>(\d+)', text): anchored at the start of the text, and
\* '.' does not match a newline, so the match lies in the first line
ReMatch(tok, text) == TokPlaces(tok, SplitLines(text)[1]) # {}

\* re.findall(r'.*<prefix>(\d+)', text): the greedy '.*' runs to the end of a
\* line and backs up to the last place where the prefix and a digit follow, so
\* each line gives at most one capture
ReFindAll(tok, text) ==
    LET ls == SplitLines(text)
        hit(l) == IF TokPlaces(tok, l) = {} THEN <<>>
                  ELSE LET i == CHOOSE p \in TokPlaces(tok, l) :
                                    \A q \in TokPlaces(tok, l) : q <= p
                       IN  <<DigitRun(l, i+1)>>
    IN  Concat([k \in 1..Len(ls) |-> hit(ls[k])])

----------------------------------------------------------------------------
(* mapMetabolicModel: one <rdf:li> element of one species *)

\* Remove both brackets: .replace('[', '').replace(']', '')
StripBrackets(s) == Remove(Remove(s, "["), "]")

\* One identifier field of a row (lines 209-214, 216-222, 224-230): the list of
\* captures, each with `lead` put in front of it, appended to an empty list and
\* rendered by str() with the brackets removed; nan when re.match fails.
IdField(tok, lead, content_string) ==
    IF ReMatch(tok, content_string)
    THEN LET num == ReFindAll(tok, content_string)
             withLead == [k \in 1..Len(num) |-> PyRepr(lead \o num[k])]
         IN  StripBrackets(PyStrList(<<PyStrList(withLead)>>))
    ELSE StripBrackets(PyStrList(<<NanText>>))

\* The row appended for one <rdf:li> (lines 199-236)
LiRow(name, bigg, content_string) ==
    [Metabolite |-> StripBrackets(PyStrList(<<PyRepr(name)>>)),
     BIGG       |-> bigg,
     HMDB       |-> IdField(HmdbUri, <<"HMDB">>, content_string),
     CHEBI      |-> IdField(ChebiUri, <<>>, content_string),
     KEGG       |-> IdField(KeggUri, <<"C">>, content_string)]

\* Lines 239-241: every column astype(str) and .str.replace("'", "")
FormatCell(s) == Remove(s, "'")

FormatRow(r) == [c \in DOMAIN r |-> FormatCell(r[c])]

----------------------------------------------------------------------------
(* mapMetabolicModel: inputs *)

MaxLi     == 2     \* <rdf:li> elements in the model file
MaxDigits == 2     \* digits of an identifier

\* The species of the model file: name and metaid attributes.  Metabolite
\* names hold primes (5'-AMP) and brackets as those of RECON1 do.
ModelSpecies ==
    { [name |-> <<"a", "m", "p">>,      metaid |-> <<"M", "_", "a">>],
      [name |-> <<"5", "'", "a">>,      metaid |-> <<"M", "_", "b">>],
      [name |-> <<"a", "[", "c", "]">>, metaid |-> <<"M", "_", "c">>] }

DigitStrings == SeqsOf(Digit, 1, MaxDigits)

\* etree.tostring(element) of an <rdf:li rdf:resource="..."/>, tail included
LiText(uri, digits) ==
    <<"<", "l", "i", " ", "r", "=", "\"">> \o <<uri>> \o digits
        \o <<"\"", "/", ">", "\n", " ">>

LiElements ==
    {[uri |-> ChebiUri, digits |-> d] : d \in DigitStrings}
    \cup {[uri |-> u, digits |-> <<"0", "7">>] : u \in {HmdbUri, KeggUri, OtherUri}}

----------------------------------------------------------------------------
(* mapMetabolicModel: the state machine *)

InitMM ==
    /\ pc = "mm_parse"
    /\ modelMap = <<>>
    /\ mmInput = <<>>
    /\ IdlePC /\ IdleQ /\ IdleM /\ IdleP /\ IdleF /\ IdleU

\* One turn of the inner loop (lines 194-236) on the next <rdf:li> of the file
MMAppendLi ==
    /\ pc = "mm_parse"
    /\ Len(mmInput) < MaxLi
    /\ \E sp \in ModelSpecies, li \in LiElements :
         /\ modelMap' = Append(modelMap,
                               LiRow(sp.name, sp.metaid, LiText(li.uri, li.digits)))
         /\ mmInput' = Append(mmInput, [species |-> sp, li |-> li])
    /\ UNCHANGED <<pc, pcVars, qVars, mVars, pVars, fVars, uVars>>

\* After the loops (lines 239-245): format every column and return
MMReturn ==
    /\ pc = "mm_parse"
    /\ modelMap' = [i \in 1..Len(modelMap) |-> FormatRow(modelMap[i])]
    /\ pc' = "mm_done"
    /\ UNCHANGED <<mmInput, pcVars, qVars, mVars, pVars, fVars, uVars>>

NextMM == MMAppendLi \/ MMReturn

SpecMM == InitMM /\ [][NextMM]_vars

\* C1: when mapMetabolicModel has returned, every species annotated with
\* http://identifiers.org/chebi/CHEBI:<digits> has a row in the returned map
\* with its name as Metabolite, its metaid as BIGG, and exactly <digits> as
\* CHEBI.
C1_ChebiRowOfSpecies ==
    pc = "mm_done" =>
      \A i \in 1..Len(mmInput) :
        mmInput[i].li.uri = ChebiUri =>
          \E k \in 1..Len(modelMap) :
            /\ modelMap[k].Metabolite = mmInput[i].species.name
            /\ modelMap[k].BIGG = mmInput[i].species.metaid
            /\ modelMap[k].CHEBI = mmInput[i].li.digits

\* The part of C1 about the CHEBI value alone: the row of the annotation (the
\* i-th row is that of the i-th <rdf:li>) has the metaid as BIGG and exactly
\* the digits as CHEBI, with no bracket or quote left.
C1_ChebiValue ==
    pc = "mm_done" =>
      \A i \in 1..Len(mmInput) :
        mmInput[i].li.uri = ChebiUri =>
          /\ modelMap[i].BIGG = mmInput[i].species.metaid
          /\ modelMap[i].CHEBI = mmInput[i].li.digits

C1_Witness ==
    /\ pc = "mm_done"
    /\ \E i \in 1..Len(mmInput) :
         /\ mmInput[i].li.uri = ChebiUri
         /\ mmInput[i].li.digits = <<"7", "0">>
         /\ modelMap[i].CHEBI = <<"7", "0">>

----------------------------------------------------------------------------
(* queryPubChem *)

MaxCompounds == 2    \* rows of the 'Compound Method' column

\* str.lower() on the letters of the model's alphabet
LowerChar(c) == IF c = "A" THEN "a" ELSE IF c = "B" THEN "b" ELSE c

Lower(s) == [i \in 1..Len(s) |-> LowerChar(s[i])]

\* s.split(sep) for a one-character sep
RECURSIVE Split(_, _)
Split(s, sep) ==
    IF \A i \in 1..Len(s) : s[i] # sep THEN <<s>>
    ELSE LET k == CHOOSE i \in 1..Len(s) :
                    s[i] = sep /\ \A j \in 1..(i-1) : s[j] # sep
         IN  <<SubSeq(s, 1, k-1)>> \o Split(SubSeq(s, k+1, Len(s)), sep)

\* Lines 30-35: every entry split on '/', the parts stacked row by row in the
\* order of the rows, lower-cased
ExplodeCompounds(column) ==
    Concat([r \in 1..Len(column) |->
              LET parts == Split(column[r], "/")
              IN  [k \in 1..Len(parts) |-> Lower(parts[k])]])

CompoundEntries ==
    { <<"A">>, <<"A", "/", "B">>, <<"/", "b">> }

\* What one pass of the try block (lines 44-55) can end with: the records are
\* appended, or one of these exceptions is raised before the append
LookupOutcomes == {"ok", "KeyError", "TimeoutError", "pcp.TimeoutError", "TypeError"}

\* Variant for comparison: a handler that catches only the lookup miss
CaughtKeyErrorOnly(outcome) == outcome = "KeyError"

\* Line 57: except (KeyError, TimeoutError, pcp.TimeoutError)
Caught(outcome) == outcome \in {"KeyError", "TimeoutError", "pcp.TimeoutError"}

InitPC ==
    /\ pc = "pc_loop"
    /\ \E column \in SeqsOf(CompoundEntries, 0, MaxCompounds) :
         pubChemQuery = ExplodeCompounds(column)
    /\ lookups = <<>>
    /\ checkpoint = <<>>
    /\ IdleMM /\ IdleQ /\ IdleM /\ IdleP /\ IdleF /\ IdleU

\* One turn of the loop of lines 42-58
PCLookup ==
    /\ pc = "pc_loop"
    /\ Len(lookups) < Len(pubChemQuery)
    /\ LET metabolite == pubChemQuery[Len(lookups) + 1] IN
       \E outcome \in LookupOutcomes :
         /\ lookups' = Append(lookups, [name |-> metabolite, outcome |-> outcome])
         /\ checkpoint' = IF outcome = "ok" THEN Append(checkpoint, metabolite)
                          ELSE checkpoint
         /\ pc' = IF outcome = "ok" \/ Caught(outcome) THEN "pc_loop"
                  ELSE "pc_raised"
    /\ UNCHANGED <<pubChemQuery, mmVars, qVars, mVars, pVars, fVars, uVars>>

\* The loop is over (line 60)
PCFinish ==
    /\ pc = "pc_loop"
    /\ Len(lookups) = Len(pubChemQuery)
    /\ pc' = "pc_done"
    /\ UNCHANGED <<pcVars, mmVars, qVars, mVars, pVars, fVars, uVars>>

NextPC == PCLookup \/ PCFinish

SpecPC == InitPC /\ [][NextPC]_vars

LookedUp == [i \in 1..Len(lookups) |-> lookups[i].name]

OkNames == LET ok == SelectSeq(lookups, LAMBDA l : l.outcome = "ok")
           IN  [i \in 1..Len(ok) |-> ok[i].name]

\* C2 as stated: a lookup that fails with a lookup miss, a timeout or a type
\* error is caught and the loop goes on, so that when queryPubChem ends every
\* name has been looked up exactly once, in input order, and the checkpoint
\* holds the names whose lookup succeeded.
C2_AllFailuresSkipped ==
    /\ pc = "pc_raised" =>
         lookups[Len(lookups)].outcome
            \notin {"KeyError", "TimeoutError", "pcp.TimeoutError", "TypeError"}
    /\ pc \in {"pc_done", "pc_raised"} => LookedUp = pubChemQuery
    /\ checkpoint = OkNames

\* C2 amended: the lookups made are always the first names of the query, once
\* each and in input order; the checkpoint holds exactly the names whose
\* lookup succeeded; a lookup miss (KeyError) or a timeout never stops the
\* loop, which then reaches every name; a type error is not caught and ends
\* the function at that name.
C2_CaughtFailuresSkipped ==
    /\ Len(lookups) <= Len(pubChemQuery)
    /\ LookedUp = SubSeq(pubChemQuery, 1, Len(lookups))
    /\ checkpoint = OkNames
    /\ pc = "pc_done" => LookedUp = pubChemQuery
    /\ pc = "pc_raised" =>
         lookups[Len(lookups)].outcome
            \notin {"ok", "KeyError", "TimeoutError", "pcp.TimeoutError"}
    /\ (lookups # <<>> /\ lookups[Len(lookups)].outcome = "TypeError") =>
         pc = "pc_raised"

C2_Witness ==
    /\ pc = "pc_done"
    /\ Len(lookups) >= 3
    /\ lookups[1].outcome = "KeyError"
    /\ lookups[2].outcome = "TimeoutError"
    /\ lookups[3].outcome = "ok"
    /\ checkpoint # <<>>

----------------------------------------------------------------------------
(* Reading the metabolomics file (queryMetaboAnalyst lines 84-87,          *)
(* constructFinalDataset lines 346-349)                                    *)

FileExtensions == {".xls", ".xlsx", ".csv", ".txt"}

\* bool(s) of a str
Truthy(s) == s # ""

\* What `a is b` can give for two str objects: False when the texts differ;
\* when they are equal it depends on whether the interpreter shares the object
IsResults(a, b) == IF a = b THEN BOOLEAN ELSE {FALSE}

\* The condition  os.path.splitext(filename)[1] is '.xls' or 'xlsx' : Python
\* reads it as  (ext is '.xls') or 'xlsx' ; `same` is the result of the `is`
ReadsExcel(ext, same) == same \/ Truthy("xlsx")

\* pd.read_excel raises on a file that is no spreadsheet, pd.read_csv reads
\* only delimited text
ReadSucceeds(ext, rd) ==
    IF ext \in {".xls", ".xlsx"} THEN rd = "read_excel" ELSE rd = "read_csv"

----------------------------------------------------------------------------
(* Building a query list (queryMetaboAnalyst lines 98-118 and 139-150,     *)
(* test_explode_pubchem_query lines 45-52 of testPubChemAPI.py)            *)

MaxNames == 3      \* rows of the column of names

\* str.strip(): leading and trailing blanks removed
RECURSIVE Strip(_)
Strip(s) ==
    IF s = <<>> THEN s
    ELSE IF Head(s) = " " THEN Strip(Tail(s))
    ELSE IF s[Len(s)] = " " THEN Strip(SubSeq(s, 1, Len(s) - 1))
    ELSE s

\* patterns = ["[", "]", "'", '"', '.']   (lines 98 and 362)
Patterns == <<"[", "]", "'", "\"", ".">>

\* patterns = ["[", "]", "'", '"']        (testPubChemAPI.py line 48)
TestPatterns == <<"[", "]", "'", "\"">>

\* Lines 107-109, 140-142, 363-365: for p in patterns: replace, then strip
RECURSIVE ReplaceAndStrip(_, _)
ReplaceAndStrip(s, ps) ==
    IF ps = <<>> THEN s
    ELSE ReplaceAndStrip(Strip(Remove(s, Head(ps))), Tail(ps))

\* testPubChemAPI.py lines 49-50: for p in patterns: replace
RECURSIVE ReplaceOnly(_, _)
ReplaceOnly(s, ps) ==
    IF ps = <<>> THEN s ELSE ReplaceOnly(Remove(s, Head(ps)), Tail(ps))

\* Lines 107-110 and 140-143 on one name
CleanName(s) == Lower(ReplaceAndStrip(s, Patterns))

\* testPubChemAPI.py lines 49-51 on one synonym
TestCleanName(s) == Lower(ReplaceOnly(s, TestPatterns))

\* Variant for comparison: unique() keeping the last occurrence of a value
RECURSIVE UniqueKeepLast(_)
UniqueKeepLast(xs) ==
    IF xs = <<>> THEN <<>>
    ELSE IF Head(xs) \in SeqRange(Tail(xs)) THEN UniqueKeepLast(Tail(xs))
    ELSE <<Head(xs)>> \o UniqueKeepLast(Tail(xs))

\* Series.unique(): the distinct values in order of appearance
RECURSIVE Unique(_)
Unique(xs) ==
    IF xs = <<>> THEN <<>>
    ELSE LET front == Unique(SubSeq(xs, 1, Len(xs) - 1))
             last  == xs[Len(xs)]
         IN  IF last \in SeqRange(front) THEN front ELSE Append(front, last)

\* ';'.join(items)
RECURSIVE JoinSemi(_)
JoinSemi(items) ==
    IF items = <<>> THEN <<>>
    ELSE IF Len(items) = 1 THEN items[1]
    ELSE items[1] \o <<";">> \o JoinSemi(Tail(items))

\* Lines 113 and 145
QueryList(column) ==
    JoinSemi(Unique([i \in 1..Len(column) |-> CleanName(column[i])]))

\* testPubChemAPI.py lines 45-52: the synonyms split on ',' and stacked, then
\* cleaned, made unique and joined
ExplodeSynonyms(column) ==
    Concat([r \in 1..Len(column) |-> Split(column[r], ",")])

TestQueryList(exploded) ==
    JoinSemi(Unique([i \in 1..Len(exploded) |-> TestCleanName(exploded[i])]))

----------------------------------------------------------------------------
(* queryMetaboAnalyst: the compound-mapping service and the identifiers *)

\* A missing value (numpy.nan), as opposed to the text 'nan'
NaN == "<NaN>"

\* What http://api.xialab.ca/mapcompounds knows; '-' stands for no identifier
KnownCompounds ==
    { [query |-> <<"a", "b">>, hmdb_id |-> "HMDB0000122", kegg_id |-> "C00031",
       pubchem_id |-> "5793", chebi_id |-> "17234", metlin_id |-> "-"],
      [query |-> <<"c">>, hmdb_id |-> "-", kegg_id |-> "C00022",
       pubchem_id |-> "-", chebi_id |-> "-", metlin_id |-> "-"] }

MapCompound(name) ==
    IF \E k \in KnownCompounds : k.query = name
    THEN CHOOSE k \in KnownCompounds : k.query = name
    ELSE [query |-> name, hmdb_id |-> "-", kegg_id |-> "-",
          pubchem_id |-> "-", chebi_id |-> "-", metlin_id |-> "-"]

\* The response to a query list: one record per name of the list
MapCompounds(queryList) ==
    LET q == Split(queryList, ";")
    IN  [i \in 1..Len(q) |-> MapCompound(q[i])]

\* Series.replace('-', np.nan)
ReplaceDash(v) == IF v = "-" THEN NaN ELSE v

\* Series.astype(str) on one value
AsStr(v) == IF v = NaN THEN "nan" ELSE v

Identifiers == {"hmdb_id", "kegg_id", "pubchem_id", "chebi_id", "metlin_id"}

\* Lines 129-132 and 161-164 on one record of the response
ConvertIds(r) ==
    [c \in DOMAIN r |-> IF c \in Identifiers THEN AsStr(ReplaceDash(r[c])) ELSE r[c]]

DataFrame(rows) == [kind |-> "DataFrame", rows |-> rows]

\* list()
EmptyList == [kind |-> "list", rows |-> <<>>]

\* Line 136: data = list()
AfterChunks(d) == EmptyList

----------------------------------------------------------------------------
(* queryMetaboAnalyst and test_explode_pubchem_query: the state machine *)

\* chunksize=1E3 (line 102), scaled down
QueryChunkSize == 2

RawNames ==
    { <<"A", "b">>, <<"[", "a", "b", "]">>, <<" ", "a", ".", "b">>, <<"c">> }

\* Entries of the 'synonyms' column: the text of a list of synonyms
RawSynonyms ==
    { <<"[", "'", "A", "b", "'", ",", " ", "'", "c", "'", "]">>,
      <<"[", "'", "c", "'", ",", "'", "a", "b", "'", "]">>,
      <<"[", "'", "a", ".", "b", "'", "]">> }

InitQ ==
    /\ \/ /\ pc = "qma_start"
          /\ filename \in FileExtensions
          /\ synmatch \in BOOLEAN
          /\ names \in SeqsOf(RawNames, 0, MaxNames)
       \/ /\ pc = "test_start"
          /\ filename = None
          /\ synmatch = None
          /\ names \in SeqsOf(RawSynonyms, 0, MaxNames - 1)
    /\ reader = None
    /\ sent = <<>>
    /\ data = [kind |-> None, rows |-> <<>>]
    /\ maCheckpoint = <<>>
    /\ IdleMM /\ IdlePC /\ IdleM /\ IdleP /\ IdleF /\ IdleU

\* Lines 84-87
QMARead ==
    /\ pc = "qma_start"
    /\ \E same \in IsResults(filename, ".xls") :
         reader' = IF ReadsExcel(filename, same) THEN "read_excel" ELSE "read_csv"
    /\ pc' = IF ReadSucceeds(filename, reader')
             THEN (IF synmatch THEN "qma_chunks" ELSE "qma_query")
             ELSE "qma_raised"
    /\ UNCHANGED <<filename, synmatch, names, sent, data, maCheckpoint, mmVars, pcVars, mVars, pVars, fVars, uVars>>

\* One turn of the loop of lines 103-135, on the next chunk of the 'Name'
\* column of pubmed_me1_query.csv
QMAChunk ==
    /\ pc = "qma_chunks"
    /\ Len(sent) * QueryChunkSize < Len(names)
    /\ LET lo == Len(sent) * QueryChunkSize + 1
           hi == IF lo + QueryChunkSize - 1 < Len(names)
                 THEN lo + QueryChunkSize - 1 ELSE Len(names)
           chunk == SubSeq(names, lo, hi)
           queryList == QueryList(chunk)
           response == MapCompounds(queryList)
           rows == [i \in 1..Len(response) |-> ConvertIds(response[i])]
       IN  /\ sent' = Append(sent, [from |-> chunk, queryList |-> queryList])
           /\ data' = DataFrame(rows)
           /\ maCheckpoint' = maCheckpoint \o rows
    /\ UNCHANGED <<pc, filename, synmatch, reader, names, mmVars, pcVars, mVars, pVars, fVars, uVars>>

\* Lines 136 and 167 once the chunks are exhausted
QMAReturnChunked ==
    /\ pc = "qma_chunks"
    /\ Len(sent) * QueryChunkSize >= Len(names)
    /\ data' = AfterChunks(data)
    /\ pc' = "qma_done"
    /\ UNCHANGED <<filename, synmatch, reader, names, sent, maCheckpoint, mmVars, pcVars, mVars, pVars, fVars, uVars>>

\* Lines 139-167: the branch without synonym matching
QMAQuery ==
    /\ pc = "qma_query"
    /\ LET queryList == QueryList(names)
           response == MapCompounds(queryList)
       IN  /\ sent' = Append(sent, [from |-> names, queryList |-> queryList])
           /\ data' = DataFrame([i \in 1..Len(response) |-> ConvertIds(response[i])])
    /\ pc' = "qma_done"
    /\ UNCHANGED <<filename, synmatch, reader, names, maCheckpoint, mmVars, pcVars, mVars, pVars, fVars, uVars>>

\* test_explode_pubchem_query
TestExplode ==
    /\ pc = "test_start"
    /\ LET exploded == ExplodeSynonyms(names)
       IN  sent' = Append(sent, [from |-> exploded,
                                 queryList |-> TestQueryList(exploded)])
    /\ pc' = "test_done"
    /\ UNCHANGED <<filename, synmatch, reader, names, data, maCheckpoint, mmVars, pcVars, mVars, pVars, fVars, uVars>>

NextQ == QMARead \/ QMAChunk \/ QMAReturnChunked \/ QMAQuery \/ TestExplode

SpecQ == InitQ /\ [][NextQ]_vars

\* C7: the metabolomics file is read as a spreadsheet (read_excel) when its
\* extension is .xls or .xlsx, and as delimited text (read_csv) when it has
\* any other extension.
C7_ReaderFollowsExtension ==
    reader # None =>
      reader = IF filename \in {".xls", ".xlsx"} THEN "read_excel" ELSE "read_csv"

\* The records the compound-mapping service answered with, over all the query
\* lists sent, with their identifier fields as the code leaves them
AnsweredRecords ==
    Concat([k \in 1..Len(sent) |->
              LET response == MapCompounds(sent[k].queryList)
              IN  [i \in 1..Len(response) |-> ConvertIds(response[i])]])

\* C8: whatever synmatch is, queryMetaboAnalyst returns a dataframe that holds
\* one record per name the compound-mapping service answered, with its
\* identifier fields.
C8_ReturnsMetaboliteMap ==
    pc = "qma_done" =>
      /\ data.kind = "DataFrame"
      /\ data.rows = AnsweredRecords

\* The place of the first occurrence of v in xs
FirstPlace(xs, v) ==
    CHOOSE k \in 1..Len(xs) : xs[k] = v /\ \A m \in 1..(k-1) : xs[m] # v

\* u lists the values of xs once each, in the order of their first occurrences
DistinctInOrder(u, xs) ==
    /\ \A i, j \in 1..Len(u) : i # j => u[i] # u[j]
    /\ SeqRange(u) = SeqRange(xs)
    /\ \A i, j \in 1..Len(u) : i < j => FirstPlace(xs, u[i]) < FirstPlace(xs, u[j])

\* queryList is the ';'-joined list of the distinct values of `cleaned`, in
\* first-occurrence order (no name of the model holds a ';')
JoinsDistinct(queryList, cleaned) ==
    IF cleaned = <<>> THEN queryList = <<>>
    ELSE DistinctInOrder(Split(queryList, ";"), cleaned)

\* A name with the characters of `removed` taken out
Without(s, removed) == SelectSeq(s, LAMBDA c : c \notin removed)

----------------------------------------------------------------------------
(* matchModelAndData: pandas operations on tables (sequences of records) *)

\* Rows of a table that satisfy keep, in order
Rows(t, keep(_)) == SelectSeq(t, keep)

\* pd.merge(modelMap, data, left_on=idcol, right_on=keycol) followed by the
\* selection of the columns Metabolite, query, BIGG, idcol (lines 265-266,
\* 269-270, 276-277, 279-280).  An inner merge keeps the order of the left
\* rows, and for one left row that of the right rows.  Two missing values
\* (NaN) are equal keys for pd.merge, as two equal texts are.
MergeOnId(left, right, idcol, keycol) ==
    Concat([i \in 1..Len(left) |->
      LET hits == Rows(right, LAMBDA d : d[keycol] = left[i][idcol])
      IN  [j \in 1..Len(hits) |->
             [Metabolite |-> left[i].Metabolite, query |-> hits[j].query,
              BIGG |-> left[i].BIGG, id |-> left[i][idcol]]]])

\* DataFrame.dropna() on the four selected columns (lines 267 and 271); of
\* them only the identifier can be missing here
DropNa(t) == Rows(t, LAMBDA r : r.id # NaN)

\* pd.merge(chebi, kegg, how='inner', on=['Metabolite', 'query', 'BIGG'])
MergeChebiKegg(chebi, kegg) ==
    Concat([i \in 1..Len(chebi) |->
      LET hits == Rows(kegg, LAMBDA k : /\ k.Metabolite = chebi[i].Metabolite
                                        /\ k.query = chebi[i].query
                                        /\ k.BIGG = chebi[i].BIGG)
      IN  [j \in 1..Len(hits) |->
             [Metabolite |-> chebi[i].Metabolite, query |-> chebi[i].query,
              BIGG |-> chebi[i].BIGG, CHEBI |-> chebi[i].id, KEGG |-> hits[j].id]]])

\* DataFrame.drop_duplicates('query', keep='first')
RECURSIVE DropDuplicatesQuery(_)
DropDuplicatesQuery(t) ==
    IF t = <<>> THEN <<>>
    ELSE LET front == DropDuplicatesQuery(SubSeq(t, 1, Len(t) - 1))
             last  == t[Len(t)]
         IN  IF \E i \in 1..Len(front) : front[i].query = last.query
             THEN front ELSE Append(front, last)

\* Lines 265-273: the matches of one chunk
MatchChunk(mm, chunk) ==
    MergeChebiKegg(DropNa(MergeOnId(mm, chunk, "CHEBI", "chebi_id")),
                   DropNa(MergeOnId(mm, chunk, "KEGG", "kegg_id")))

\* Lines 276-283: the matches of the whole table
MatchAll(mm, d) ==
    DropDuplicatesQuery(
        MergeChebiKegg(MergeOnId(mm, d, "CHEBI", "chebi_id"),
                       MergeOnId(mm, d, "KEGG", "kegg_id")))

----------------------------------------------------------------------------
(* matchModelAndData: inputs *)

MaxModelRows == 2    \* rows of modelMap
MaxDataRows  == 3    \* rows of the identifier table of the measurements

\* chunksize=1E1 (line 263), scaled down
MatchChunkSize == 2

\* The two ways a table has of lacking an identifier: the text 'nan' (a table
\* as mapMetabolicModel and queryMetaboAnalyst return it, after astype(str)),
\* or a missing value (a table read back from a .csv file with dtype=str)
Missing == {"nan", NaN}

ModelMapRows(missing) ==
    { [Metabolite |-> "D-Glucose", BIGG |-> b, CHEBI |-> ids[1], KEGG |-> ids[2]] :
        b \in {"M_glc_D_c", "M_glc_D_e"},
        ids \in { <<"17234", missing>>, <<missing, "C00031">>, <<"17234", "C00031">> } }

QueryRows(missing) ==
    { [query |-> q, chebi_id |-> ids[1], kegg_id |-> ids[2]] :
        q \in {"glucose", "dextrose"},
        ids \in { <<missing, missing>>, <<missing, "C00031">>, <<"17234", "C00031">> } }

InitM ==
    /\ pc = "match_start"
    /\ synmatch \in BOOLEAN
    /\ \E missing \in Missing : modelMap \in SeqsOf(ModelMapRows(missing), 0, MaxModelRows)
    \* with synmatch the table is read from metaboanalyst_me1_query.csv;
    \* without, it is the table queryMetaboAnalyst returned
    /\ queryData \in SeqsOf(QueryRows(IF synmatch THEN NaN ELSE "nan"), 0, MaxDataRows)
    /\ merged_data = Unbound
    /\ chunksDone = 0
    /\ mapCheckpoint = <<>>
    /\ mmInput = <<>>
    /\ filename = None /\ reader = None
    /\ names = <<>> /\ sent = <<>> /\ maCheckpoint = <<>>
    /\ data = [kind |-> None, rows |-> <<>>]
    /\ IdlePC /\ IdleP /\ IdleF /\ IdleU

\* One turn of the loop of lines 264-274
MatchNextChunk ==
    /\ pc = "match_start"
    /\ synmatch
    /\ chunksDone * MatchChunkSize < Len(queryData)
    /\ LET lo == chunksDone * MatchChunkSize + 1
           hi == IF lo + MatchChunkSize - 1 < Len(queryData)
                 THEN lo + MatchChunkSize - 1 ELSE Len(queryData)
           found == MatchChunk(modelMap, SubSeq(queryData, lo, hi))
       IN  /\ merged_data' = [bound |-> TRUE, rows |-> found]
           /\ mapCheckpoint' = mapCheckpoint \o found
    /\ chunksDone' = chunksDone + 1
    /\ UNCHANGED <<pc, queryData, mmVars, pcVars, qVars, pVars, fVars, uVars>>

\* Line 285 after the loop: return merged_data, which is unbound when the
\* loop made no turn
MatchReturnChunked ==
    /\ pc = "match_start"
    /\ synmatch
    /\ chunksDone * MatchChunkSize >= Len(queryData)
    /\ pc' = IF merged_data.bound THEN "match_done" ELSE "match_raised"
    /\ UNCHANGED <<mVars, mmVars, pcVars, qVars, pVars, fVars, uVars>>

\* Lines 276-285: the branch without synonym matching
MatchWhole ==
    /\ pc = "match_start"
    /\ ~synmatch
    /\ merged_data' = [bound |-> TRUE, rows |-> MatchAll(modelMap, queryData)]
    /\ pc' = "match_done"
    /\ UNCHANGED <<queryData, chunksDone, mapCheckpoint, mmVars, pcVars, qVars, pVars, fVars, uVars>>

NextM == MatchNextChunk \/ MatchReturnChunked \/ MatchWhole

SpecM == InitM /\ [][NextM]_vars

\* A real identifier, as opposed to a missing one
IsReal(v) == v \notin Missing

\* C3: every row of the table matchModelAndData returns pairs a query with a
\* model species whose ChEBI id is the query's ChEBI id and whose KEGG id is
\* the query's KEGG id, both real identifiers: a query and a species that
\* both lack an identifier are not joined.
C3_JoinedOnRealIdentifiers ==
    pc = "match_done" =>
      \A i \in 1..Len(merged_data.rows) :
        LET r == merged_data.rows[i] IN
          /\ IsReal(r.CHEBI) /\ IsReal(r.KEGG)
          /\ \E k \in 1..Len(queryData) :
               queryData[k].query = r.query /\ queryData[k].chebi_id = r.CHEBI
          /\ \E k \in 1..Len(queryData) :
               queryData[k].query = r.query /\ queryData[k].kegg_id = r.KEGG
          /\ \E k \in 1..Len(modelMap) :
               /\ modelMap[k].Metabolite = r.Metabolite /\ modelMap[k].BIGG = r.BIGG
               /\ modelMap[k].CHEBI = r.CHEBI
          /\ \E k \in 1..Len(modelMap) :
               /\ modelMap[k].Metabolite = r.Metabolite /\ modelMap[k].BIGG = r.BIGG
               /\ modelMap[k].KEGG = r.KEGG

NoTwoRowsOfAQuery(t) ==
    \A i, j \in 1..Len(t) : i # j => t[i].query # t[j].query

\* C4: for both values of synmatch, neither the table returned nor the rows
\* appended to the checkpoint file hold two rows with the same query.
C4_Deduplicated ==
    pc = "match_done" =>
      /\ NoTwoRowsOfAQuery(merged_data.rows)
      /\ NoTwoRowsOfAQuery(mapCheckpoint)

\* C9: with synmatch, for any number of chunks (zero included), the function
\* returns the matches of every chunk: the rows appended to the checkpoint
\* file, in chunk order.
C9_ReturnsAllChunks ==
    (synmatch /\ pc \in {"match_done", "match_raised"}) =>
      /\ pc = "match_done"
      /\ merged_data.rows = mapCheckpoint

----------------------------------------------------------------------------
(* mapMetabolitePositionsInModel: text and table operations *)

\* `a in b` for two str: a occurs in b as a piece of consecutive characters
Occurs(a, b) ==
    \E k \in 1..(Len(b) - Len(a) + 1) : SubSeq(b, k, k + Len(a) - 1) = a

\* s.rsplit('_')[-1]  (line 311)
LastPart(s) == LET parts == Split(s, "_") IN parts[Len(parts)]

\* s.split('_')[0]  (line 312)
FirstPart(s) == Split(s, "_")[1]

\* s.split('_', n=1)[-1]  (line 319): what follows the first underscore
AfterFirstUnderscore(s) ==
    IF "_" \notin SeqRange(s) THEN s
    ELSE LET k == CHOOSE i \in 1..Len(s) :
                    s[i] = "_" /\ \A j \in 1..(i-1) : s[j] # "_"
         IN  SubSeq(s, k + 1, Len(s))

\* s.rsplit('_', n=1)[0]  (line 320): what precedes the last underscore
BeforeLastUnderscore(s) ==
    IF "_" \notin SeqRange(s) THEN s
    ELSE LET k == CHOOSE i \in 1..Len(s) :
                    s[i] = "_" /\ \A j \in (i+1)..Len(s) : s[j] # "_"
         IN  SubSeq(s, 1, k - 1)

\* Series.replace('M_', ''): a whole value equal to 'M_' is replaced, never a
\* part of a value  (line 299)
ReplaceWholeValue(v) == IF v = <<"M", "_">> THEN <<>> ELSE v

\* Code points of the characters of the identifiers, for sorting
CodePoint(c) ==
    CASE c = "D" -> 68 [] c = "M" -> 77 [] c = "_" -> 95 [] c = "c" -> 99
      [] c = "e" -> 101 [] c = "g" -> 103 [] c = "h" -> 104 [] OTHER -> 0

RECURSIVE TextLess(_, _)
TextLess(a, b) ==
    IF b = <<>> THEN FALSE
    ELSE IF a = <<>> THEN TRUE
    ELSE IF Head(a) # Head(b) THEN CodePoint(Head(a)) < CodePoint(Head(b))
    ELSE TextLess(Tail(a), Tail(b))

\* The texts of S in increasing order
RECURSIVE SortedTexts(_)
SortedTexts(S) ==
    IF S = {} THEN <<>>
    ELSE LET least == CHOOSE x \in S : \A y \in S \ {x} : TextLess(x, y)
         IN  <<least>> \o SortedTexts(S \ {least})

RECURSIVE SumOf(_)
SumOf(S) == IF S = {} THEN 0
            ELSE LET x == CHOOSE y \in S : TRUE IN x + SumOf(S \ {x})

RECURSIVE GCD(_, _)
GCD(a, b) == IF b = 0 THEN a ELSE GCD(b, a % b)

\* The mean of a non-empty set of positions, as a fraction in lowest terms
Mean(S) ==
    LET g == GCD(SumOf(S), Cardinality(S))
    IN  [num |-> SumOf(S) \div g, den |-> Cardinality(S) \div g]

\* A whole number as a fraction
Whole(n) == [num |-> n, den |-> 1]

\* fill_value=0  (line 317)
FillValue == Whole(0)

\* Lines 310-317: Compartment and Metabolite from the identifier, then
\* pivot_table(index='Metabolite', columns='Compartment', values='Position',
\* aggfunc='mean', fill_value=0).  The rows come sorted by their index.
PivotTable(selected) ==
    LET withParts == [i \in 1..Len(selected) |->
                        [Position |-> selected[i].Position,
                         Compartment |-> LastPart(selected[i].Metabolite),
                         Metabolite |-> FirstPart(selected[i].Metabolite)]]
        comps == {withParts[i].Compartment : i \in 1..Len(withParts)}
        keys == SortedTexts({withParts[i].Metabolite : i \in 1..Len(withParts)})
        positions(m, c) == {withParts[i].Position : i \in
                              {j \in 1..Len(withParts) :
                                 /\ withParts[j].Metabolite = m
                                 /\ withParts[j].Compartment = c}}
    IN  [k \in 1..Len(keys) |->
           [index |-> keys[k],
            cells |-> [c \in comps |->
                         IF positions(keys[k], c) = {} THEN FillValue
                         ELSE Mean(positions(keys[k], c))]]]

\* Lines 319-320 on the BIGG column
StripBigg(rows) ==
    [i \in 1..Len(rows) |->
       [rows[i] EXCEPT !.BIGG = BeforeLastUnderscore(AfterFirstUnderscore(@))]]

\* DataFrame.drop_duplicates('Metabolite', keep='first')  (line 322)
RECURSIVE DropDuplicatesMetabolite(_)
DropDuplicatesMetabolite(t) ==
    IF t = <<>> THEN <<>>
    ELSE LET front == DropDuplicatesMetabolite(SubSeq(t, 1, Len(t) - 1))
             last  == t[Len(t)]
         IN  IF \E i \in 1..Len(front) : front[i].Metabolite = last.Metabolite
             THEN front ELSE Append(front, last)

\* Lines 324-327: pd.merge(biggRxn, mergedModelDataMap, left_index=True,
\* right_on='BIGG'), the BIGG column dropped, Query made the index
MergePositions(pivot, map) ==
    Concat([i \in 1..Len(pivot) |->
      LET hits == Rows(map, LAMBDA r : r.BIGG = pivot[i].index)
      IN  [j \in 1..Len(hits) |->
             [Query |-> hits[j].Query, Metabolite |-> hits[j].Metabolite,
              cells |-> pivot[i].cells]]])

----------------------------------------------------------------------------
(* mapMetabolitePositionsInModel: inputs and state machine *)

MaxMets    == 3    \* species of the model
MaxMapRows == 2    \* rows of the merged map

\* Identifiers of species as cobra gives them (str(met)): metabolite, then
\* compartment; g_D_c holds an underscore of its own
SpeciesIds ==
    { <<"h", "_", "c">>, <<"h", "_", "e">>,
      <<"g", "_", "c">>, <<"g", "_", "D", "_", "c">> }

\* The display name of a species
SpeciesName(id) ==
    IF FirstPart(id) = <<"h">> THEN "H+"
    ELSE IF id = <<"g", "_", "c">> THEN "Glycine" ELSE "D-Glucose"

\* A row of the merged map for a species: BIGG is the metaid, M_<identifier>
MapRowsP ==
    { [Metabolite |-> SpeciesName(id), Query |-> q, BIGG |-> <<"M", "_">> \o id] :
        id \in SpeciesIds, q \in {<<"a", "b">>, <<"c">>} }

\* Sequences over S without repetition, of length at most n
DistinctSeqs(S, n) ==
    {t \in SeqsOf(S, 0, n) : \A i, j \in 1..Len(t) : i # j => t[i] # t[j]}

InitP ==
    /\ pc = "pos_scan"
    /\ metabolites \in DistinctSeqs(SpeciesIds, MaxMets)
    \* the table matchModelAndData returns names the column 'query'; the
    \* table read from metaboanalyst_recon1_map.csv (line 401) has the
    \* columns of that file
    /\ \E col \in {"query", "Query"}, rows \in SeqsOf(MapRowsP, 0, MaxMapRows) :
         mapInput = [queryColumn |-> col, rows |-> rows]
    /\ mergedModelDataMap = mapInput.rows
    /\ biggRxn = [scanned |-> 0, rows |-> <<>>]
    /\ PositionModel = <<>>
    /\ modelMap = <<>> /\ mmInput = <<>>
    /\ IdlePC /\ IdleQ /\ IdleM /\ IdleF /\ IdleU

\* One turn of the loop of lines 304-308, on the species at `index`
PosScan ==
    /\ pc = "pos_scan"
    /\ biggRxn.scanned < Len(metabolites)
    /\ LET index == biggRxn.scanned
           met == metabolites[index + 1]
           bigg_ids == [i \in 1..Len(mergedModelDataMap) |->
                          ReplaceWholeValue(mergedModelDataMap[i].BIGG)]
       IN  biggRxn' =
             [scanned |-> index + 1,
              rows |-> IF \E i \in 1..Len(bigg_ids) : Occurs(met, bigg_ids[i])
                       THEN Append(biggRxn.rows,
                                   [Position |-> index, Metabolite |-> met])
                       ELSE biggRxn.rows]
    /\ UNCHANGED <<pc, mapInput, mergedModelDataMap, metabolites, PositionModel,
                   mmVars, pcVars, qVars, mVars, fVars, uVars>>

\* Lines 310-331 once the loop is over.  An empty biggRxn has no column
\* 'Metabolite' (line 310), and a map without a column 'Query' cannot be
\* indexed by it (line 327): both raise KeyError.
PosFinish ==
    /\ pc = "pos_scan"
    /\ biggRxn.scanned = Len(metabolites)
    /\ IF biggRxn.rows = <<>>
       THEN /\ pc' = "pos_raised"
            /\ UNCHANGED <<mergedModelDataMap, PositionModel>>
       ELSE /\ mergedModelDataMap' = StripBigg(mergedModelDataMap)
            /\ IF mapInput.queryColumn = "Query"
               THEN /\ PositionModel' =
                         MergePositions(PivotTable(biggRxn.rows),
                                        DropDuplicatesMetabolite(mergedModelDataMap'))
                    /\ pc' = "pos_done"
               ELSE /\ pc' = "pos_raised"
                    /\ UNCHANGED PositionModel
    /\ UNCHANGED <<mapInput, metabolites, biggRxn, mmVars, pcVars, qVars, mVars, fVars, uVars>>

NextP == PosScan \/ PosFinish

SpecP == InitP /\ [][NextP]_vars

\* C5: for each row of the merged map whose BIGG species is in the model, the
\* position table has a row of that metabolite whose entry in the
\* column of the species' compartment is the 0-based index of the species in
\* the model's list of metabolites.
C5_PositionIsIndexOfSpecies ==
    pc = "pos_done" =>
      \A k \in 1..Len(mapInput.rows), i \in 1..Len(metabolites) :
        mapInput.rows[k].BIGG = <<"M", "_">> \o metabolites[i] =>
          \E r \in 1..Len(PositionModel) :
            /\ PositionModel[r].Metabolite = mapInput.rows[k].Metabolite
            /\ LastPart(metabolites[i]) \in DOMAIN PositionModel[r].cells
            /\ PositionModel[r].cells[LastPart(metabolites[i])] = Whole(i - 1)

\* The index of the pivot table a row of the position table was merged on:
\* the BIGG text of the map row of its metabolite (line 324)
PivotIndexOf(row) ==
    LET kept == DropDuplicatesMetabolite(mergedModelDataMap)
        k == CHOOSE j \in 1..Len(kept) : kept[j].Metabolite = row.Metabolite
    IN  kept[k].BIGG

\* The selected species (rows of biggRxn) of a pivot index and a compartment
SelectedOf(index, comp) ==
    {j \in 1..Len(biggRxn.rows) :
        /\ FirstPart(biggRxn.rows[j].Metabolite) = index
        /\ LastPart(biggRxn.rows[j].Metabolite) = comp}

\* C11: in the position table an entry is 0 exactly when the model has no
\* selected species of that metabolite in that compartment: the entry of a
\* species that is present is never 0.
C11_ZeroMeansAbsent ==
    pc = "pos_done" =>
      \A r \in 1..Len(PositionModel) : \A c \in DOMAIN PositionModel[r].cells :
        (PositionModel[r].cells[c] = Whole(0))
          <=> (SelectedOf(PivotIndexOf(PositionModel[r]), c) = {})

\* A position table with an entry of an absent species (0) next to the entry
\* of a present one
C11_Witness ==
    /\ pc = "pos_done"
    /\ \E r \in 1..Len(PositionModel) :
         \E c, d \in DOMAIN PositionModel[r].cells :
           /\ PositionModel[r].cells[c] = Whole(0)
           /\ SelectedOf(PivotIndexOf(PositionModel[r]), c) = {}
           /\ PositionModel[r].cells[d] # Whole(0)
           /\ SelectedOf(PivotIndexOf(PositionModel[r]), d) # {}

----------------------------------------------------------------------------
(* constructFinalDataset *)

MaxPosRows  == 2    \* rows of the position table
MaxMeasRows == 2    \* rows of the measurements

\* Variant for comparison: the names compared without lower-casing
NormalizeNameKeepCase(s) == ReplaceAndStrip(s, Patterns)

\* Lines 362-370 on one name, of the 'Compound Method' column and of the index
\* of the position table alike
NormalizeName(s) == Lower(ReplaceAndStrip(s, Patterns))

\* Lines 374-376: pd.merge(PositionModel, all_compounds, left_index=True,
\* right_on='Compound Method', how='inner')
MergeFinal(positions, compounds) ==
    Concat([i \in 1..Len(positions) |->
      LET hits == Rows(compounds, LAMBDA m : m.CompoundMethod = positions[i].Query)
      IN  [j \in 1..Len(hits) |->
             [CompoundMethod |-> hits[j].CompoundMethod, value |-> hits[j].value,
              Metabolite |-> positions[i].Metabolite, cells |-> positions[i].cells]]])

PositionRows ==
    { [Query |-> q, Metabolite |-> "D-Glucose", cells |-> [c \in {"c"} |-> Whole(n)]] :
        q \in { <<"A", "b">>, <<"a", ".", "b", " ">> }, n \in {1, 2} }

MeasurementRows ==
    { [CompoundMethod |-> n, value |-> v] :
        n \in { <<"[", "a", "b", "]">>, <<" ", "a", ".", "B">>, <<"c">> },
        v \in {10, 20} }

InitF ==
    /\ pc = "final_start"
    /\ filename \in FileExtensions
    /\ reader = None
    /\ PositionModel \in SeqsOf(PositionRows, 0, MaxPosRows)
    /\ fileData \in SeqsOf(MeasurementRows, 0, MaxMeasRows)
    /\ finalInput = [positions |-> PositionModel, measurements |-> fileData]
    /\ df = <<>>
    /\ synmatch = None /\ names = <<>> /\ sent = <<>> /\ maCheckpoint = <<>>
    /\ data = [kind |-> None, rows |-> <<>>]
    /\ mapInput = <<>> /\ mergedModelDataMap = <<>> /\ metabolites = <<>>
    /\ biggRxn = [scanned |-> 0, rows |-> <<>>]
    /\ IdleMM /\ IdlePC /\ IdleM /\ IdleU

\* Lines 346-349
FinalRead ==
    /\ pc = "final_start"
    /\ \E same \in IsResults(filename, ".xls") :
         reader' = IF ReadsExcel(filename, same) THEN "read_excel" ELSE "read_csv"
    /\ pc' = IF ReadSucceeds(filename, reader') THEN "final_merge" ELSE "final_raised"
    /\ UNCHANGED <<filename, synmatch, names, sent, data, maCheckpoint,
                   mmVars, pcVars, mVars, pVars, fVars, uVars>>

\* Lines 361-379: both tables have their names normalized in place, and the
\* merge of the two is returned
FinalMerge ==
    /\ pc = "final_merge"
    /\ fileData' = [j \in 1..Len(fileData) |->
                      [fileData[j] EXCEPT !.CompoundMethod = NormalizeName(@)]]
    /\ PositionModel' = [i \in 1..Len(PositionModel) |->
                           [PositionModel[i] EXCEPT !.Query = NormalizeName(@)]]
    /\ df' = MergeFinal(PositionModel', fileData')
    /\ pc' = "final_done"
    /\ UNCHANGED <<finalInput, mapInput, mergedModelDataMap, metabolites, biggRxn,
                   mmVars, pcVars, qVars, mVars, uVars>>

NextF == FinalRead \/ FinalMerge

SpecF == InitF /\ [][NextF]_vars

\* A name as C6 normalizes it: the characters [ ] ' " . removed, surrounding
\* blanks stripped, lower-cased
NormalName(s) == Lower(Strip(Without(s, {"[", "]", "'", "\"", "."})))

\* The pairs (position row, measurement row) whose normalized names are equal
MatchingPairs ==
    { p \in (1..Len(finalInput.positions)) \X (1..Len(finalInput.measurements)) :
        NormalName(finalInput.positions[p[1]].Query)
          = NormalName(finalInput.measurements[p[2]].CompoundMethod) }

\* The row of the result for such a pair: the columns of the measurement row
\* (its name normalized) with the positions of the position row
RowOfPair(p) ==
    [CompoundMethod |-> NormalName(finalInput.measurements[p[2]].CompoundMethod),
     value |-> finalInput.measurements[p[2]].value,
     Metabolite |-> finalInput.positions[p[1]].Metabolite,
     cells |-> finalInput.positions[p[1]].cells]

----------------------------------------------------------------------------
(* utilities.convert_to_string (Python/utilities.py lines 8-13)             *)

MaxColRows == 2    \* rows of the column

\* The cells of a column: a missing value (np.nan), a number of the column's
\* dtype, or a str
NanCell == [kind |-> "nan", v |-> 0, s |-> <<>>]
Number(dtype, n) == [kind |-> dtype, v |-> n, s |-> <<>>]
Text(t) == [kind |-> "str", v |-> 0, s |-> t]

DigitChar(d) ==
    CASE d = 0 -> "0" [] d = 1 -> "1" [] d = 2 -> "2" [] d = 3 -> "3"
      [] d = 4 -> "4" [] d = 5 -> "5" [] d = 6 -> "6" [] d = 7 -> "7"
      [] d = 8 -> "8" [] d = 9 -> "9"

RECURSIVE StrNat(_)
StrNat(n) == IF n < 10 THEN <<DigitChar(n)>>
             ELSE StrNat(n \div 10) \o <<DigitChar(n % 10)>>

\* str() of an int: its decimal digits, after a '-' when it is negative
StrInt(n) == IF n < 0 THEN <<"-">> \o StrNat(0 - n) ELSE StrNat(n)

\* Line 9: fillna(-1); a column that holds a missing value is a float column
Fillna(cell) == IF cell.kind = "nan" THEN Number("float", 0 - 1) ELSE cell

\* Line 10: astype(int), here of whole numbers
AstypeInt(cell) == Number("int", cell.v)

\* Line 11: astype(str)
AstypeStr(cell) == Text(StrInt(cell.v))

\* Line 12: replace('-1', np.nan), a whole value equal to '-1'
ReplaceMinusOne(cell) == IF cell = Text(<<"-", "1">>) THEN NanCell ELSE cell

\* The whole numbers a column holds
ColumnValues == {0 - 11, 0 - 2, 0 - 1, 0, 1, 10}

\* A column of integers without missing values is an int or a float column;
\* one with missing values is a float column
InputColumns ==
    SeqsOf({Number("int", n) : n \in ColumnValues}, 0, MaxColRows)
      \union SeqsOf({Number("float", n) : n \in ColumnValues} \union {NanCell},
                    0, MaxColRows)

InitU ==
    /\ pc = "cts_fillna"
    /\ seriesInput \in InputColumns
    /\ series = seriesInput
    /\ IdleMM /\ IdlePC /\ IdleQ /\ IdleM /\ IdleP /\ IdleF

\* Line 9
CtsFillna ==
    /\ pc = "cts_fillna"
    /\ series' = [i \in 1..Len(series) |-> Fillna(series[i])]
    /\ pc' = "cts_astype_int"
    /\ UNCHANGED <<seriesInput, mmVars, pcVars, qVars, mVars, pVars, fVars>>

\* Line 10
CtsAstypeInt ==
    /\ pc = "cts_astype_int"
    /\ series' = [i \in 1..Len(series) |-> AstypeInt(series[i])]
    /\ pc' = "cts_astype_str"
    /\ UNCHANGED <<seriesInput, mmVars, pcVars, qVars, mVars, pVars, fVars>>

\* Line 11
CtsAstypeStr ==
    /\ pc = "cts_astype_str"
    /\ series' = [i \in 1..Len(series) |-> AstypeStr(series[i])]
    /\ pc' = "cts_replace"
    /\ UNCHANGED <<seriesInput, mmVars, pcVars, qVars, mVars, pVars, fVars>>

\* Lines 12-13
CtsReplace ==
    /\ pc = "cts_replace"
    /\ series' = [i \in 1..Len(series) |-> ReplaceMinusOne(series[i])]
    /\ pc' = "cts_done"
    /\ UNCHANGED <<seriesInput, mmVars, pcVars, qVars, mVars, pVars, fVars>>

NextU == CtsFillna \/ CtsAstypeInt \/ CtsAstypeStr \/ CtsReplace

SpecU == InitU /\ [][NextU]_vars

\* C12: convert_to_string maps every non-missing integer of the column,
\* negative ones included, to its decimal string and every missing value to
\* a missing value: no non-missing value becomes missing and no missing value
\* becomes a string.
C12_ConvertsEveryValue ==
    pc = "cts_done" =>
      /\ Len(series) = Len(seriesInput)
      /\ \A i \in 1..Len(seriesInput) :
           IF seriesInput[i] = NanCell
           THEN series[i] = NanCell
           ELSE series[i] = Text(StrInt(seriesInput[i].v))

\* A column with a missing value, a negative number of two digits and a
\* positive one, converted
C12_Witness ==
    /\ pc = "cts_done"
    /\ seriesInput = <<NanCell, Number("float", 0 - 11)>>
    /\ series = <<NanCell, Text(<<"-", "1", "1">>)>>

====
